---- MODULE Spec2Model ----
(***************************************************************************)
(* Model of build_calendars.py: the spreadsheet-to-calendar pipeline.      *)
(*                                                                         *)
(* Representation.                                                         *)
(*  - A text cell is a sequence of one-character strings, so that strip,   *)
(*    lower and the regular-expression substitutions act on characters.    *)
(*  - NaN is the missing cell read_csv produces, PyNone is Python's None.  *)
(*  - A date is a day number, NaT the missing/unparseable date.  A         *)
(*    timestamp is a number of hours, day * 24 + hour; an all-day date d   *)
(*    is the instant d * 24 (midnight), which is how the Event stores it.  *)
(*  - A time-of-day text is an hour 0..23 ("HH:00:00") or one of the codes *)
(*    StrNan ('nan'), StrEmpty ('') and StrJunk (text to_datetime cannot   *)
(*    parse).                                                              *)
(*                                                                         *)
(* Block structure of the row loop.  In the source, lines 131-161 (end     *)
(* adjustment, optional fields, UID, cal.events.add, count += 1) are       *)
(* indented one level deeper than the if/else of line 113/124, so they     *)
(* form the tail of the all-day branch (the else of line 124).  The except *)
(* clause of line 162 is written at the indentation of the try body, which *)
(* the interpreter rejects; it is read here as the handler of the try of   *)
(* line 104, the only try it can belong to.  ProcessRow follows that block *)
(* structure.                                                              *)
(***************************************************************************)
EXTENDS Integers, Sequences, FiniteSets, TLC

VARIABLES
    table,             \* df as read_csv returns it (line 60)
    pc,                \* position of the script
    df,                \* the prepared and filtered frame (lines 67-77)
    initial_count,     \* line 76
    valid_count,       \* line 78
    skipped_count,     \* line 79
    groups,            \* group names still to be visited by the loop of line 89
    name,              \* loop variable of line 89
    slug,              \* line 93
    cal,               \* cal.events of the current group (lines 98, 160)
    count,             \* line 101
    skipped_in_group,  \* line 102
    pos,               \* number of rows of the current group already iterated
    event,             \* the Event object of the last iterated row (line 105)
    outcome,           \* per row index: what the row loop did with the row
    files,             \* public/calendars/<slug>.ics, by slug (lines 169-171)
    calendars_list,    \* line 85, 172
    total_processed,   \* line 87, 178
    report,            \* per group name: the counts its log line reports
    manifest_file      \* public/calendars.json (lines 187-193)

vars == <<table, pc, df, initial_count, valid_count, skipped_count, groups, name,
          slug, cal, count, skipped_in_group, pos, event, outcome, files,
          calendars_list, total_processed, report, manifest_file>>

-----------------------------------------------------------------------------
(* Values *)

NaN == <<"NaN">>
PyNone == <<"PyNone">>
NaT == -1
DateJunk == -2
StrNan == -1
StrEmpty == -2
StrJunk == -3
Midnight == 0
HoursPerDay == 24
OneHour == 1

-----------------------------------------------------------------------------
(* Characters *)

UpperLetters == <<"A","B","C","D","E","F","G","H","I","J","K","L","M",
                  "N","O","P","Q","R","S","T","U","V","W","X","Y","Z">>
LowerLetters == <<"a","b","c","d","e","f","g","h","i","j","k","l","m",
                  "n","o","p","q","r","s","t","u","v","w","x","y","z">>
Digits == {"0","1","2","3","4","5","6","7","8","9"}
Whitespace == {" "}

Range(s) == {s[i] : i \in 1..Len(s)}

LowerOf(c) ==
    IF \E i \in 1..Len(UpperLetters) : UpperLetters[i] = c
    THEN LowerLetters[CHOOSE i \in 1..Len(UpperLetters) : UpperLetters[i] = c]
    ELSE c

Lower(s) == [i \in 1..Len(s) |-> LowerOf(s[i])]

RECURSIVE LStrip(_, _)
LStrip(s, chars) ==
    IF s # <<>> /\ Head(s) \in chars THEN LStrip(Tail(s), chars) ELSE s

RECURSIVE RStrip(_, _)
RStrip(s, chars) ==
    IF s # <<>> /\ s[Len(s)] \in chars
    THEN RStrip(SubSeq(s, 1, Len(s) - 1), chars)
    ELSE s

Strip(s) == RStrip(LStrip(s, Whitespace), Whitespace)

\* Code points of the characters the model's texts use (Python compares
\* strings by code point).
Ord(c) ==
    CASE c = " " -> 32
      [] c = "!" -> 33
      [] c = "-" -> 45
      [] c = "0" -> 48
      [] c = "1" -> 49
      [] c = "A" -> 65
      [] c = "D" -> 68
      [] c = "L" -> 76
      [] c = "O" -> 79
      [] c = "T" -> 84
      [] c = "a" -> 97
      [] c = "d" -> 100
      [] c = "e" -> 101
      [] c = "n" -> 110
      [] c = "o" -> 111
      [] c = "p" -> 112
      [] c = "y" -> 121
      [] OTHER -> 127

RECURSIVE StrLess(_, _)
StrLess(s, t) ==
    IF t = <<>> THEN FALSE
    ELSE IF s = <<>> THEN TRUE
    ELSE IF Ord(Head(s)) # Ord(Head(t)) THEN Ord(Head(s)) < Ord(Head(t))
    ELSE StrLess(Tail(s), Tail(t))

-----------------------------------------------------------------------------
(* Field Normalizer *)

SlugKeep(c) == c \in Range(LowerLetters) \cup Digits \cup Whitespace \cup {"-"}

\* re.sub(r'[\s-]+', '-', s): every maximal run of whitespace/hyphens
\* becomes one hyphen.
RECURSIVE Collapse(_)
Collapse(s) ==
    IF s = <<>> THEN <<>>
    ELSE IF Head(s) \in Whitespace \cup {"-"}
         THEN <<"-">> \o Collapse(LStrip(s, Whitespace \cup {"-"}))
         ELSE <<Head(s)>> \o Collapse(Tail(s))

slugify(s) ==
    IF s = NaN THEN <<>>
    ELSE LET s1 == Strip(Lower(s))
             s2 == SelectSeq(s1, SlugKeep)
             s3 == Collapse(s2)
         IN  RStrip(LStrip(s3, {"-"}), {"-"})

clean_str(s) == IF s = NaN \/ s = PyNone THEN PyNone ELSE Strip(s)

\* Python truth value of a clean_str result.
Truthy(s) == s # PyNone /\ s # <<>>

\* pd.to_datetime(..., errors='coerce') on a date cell.
ToDatetime(c) == IF c >= 0 THEN c ELSE NaT

parse_dt_str(date, time_str) ==
    IF date = NaT THEN NaT
    ELSE IF time_str >= 0 THEN date * HoursPerDay + time_str
    ELSE NaT

-----------------------------------------------------------------------------
(* Identifier Generator *)

\* isoformat() of a begin/end value.
IsoFormat(t) == <<ToString(t)>>

\* f"{location}": None formats as the text None.
Format(v) == IF v = PyNone THEN <<"N","o","n","e">> ELSE v

\* The md5 digest is kept symbolic (distinct keys, distinct digests).
make_uid(title, start, end, location) ==
    <<"md5">> \o title \o <<"|">> \o IsoFormat(start) \o <<"|">> \o IsoFormat(end)
              \o <<"|">> \o Format(location) \o <<"@torrens-uni.edu.au">>

-----------------------------------------------------------------------------
(* Frame preparation and filtering (lines 66-80) *)

\* Lines 68-73 on one row; idx is the frame's index label of the row.
\* The time cells hold the text astype(str).str.strip() yields: a missing
\* cell reads 'nan' (StrNan), a blank one '' (StrEmpty).
PrepareRow(i, r) ==
    [idx            |-> i - 1,
     Calendar       |-> r.Calendar,
     Title          |-> r.Title,
     StartDate      |-> ToDatetime(r.StartDate),
     EndDate        |-> ToDatetime(r.EndDate),
     StartTime      |-> r.StartTime,
     EndTime        |-> r.EndTime,
     has_time_start |-> r.StartTime # StrEmpty /\ r.StartTime # StrNan
                        /\ ToDatetime(r.StartDate) # NaT,
     has_time_end   |-> r.EndTime # StrEmpty /\ r.EndTime # StrNan
                        /\ ToDatetime(r.EndDate) # NaT,
     Location       |-> r.Location,
     UID            |-> r.UID]

HasCalendarAndTitle(r) == r.Calendar # NaN /\ r.Title # NaN

HasTitleAndStart(r) == r.Title # NaN /\ r.StartDate # NaT

\* df.dropna(subset=['Calendar', 'Title']) followed by lines 68-73.
Prepared(t) ==
    SelectSeq([i \in 1..Len(t) |-> PrepareRow(i, t[i])], HasCalendarAndTitle)

\* df[df['Title'].notna() & df['Start Date'].notna()]
Filtered(d) == SelectSeq(d, HasTitleAndStart)

\* groupby('Calendar') visits the distinct keys in sorted order.
RECURSIVE SortNames(_)
SortNames(S) ==
    IF S = {} THEN <<>>
    ELSE LET m == CHOOSE x \in S : \A y \in S \ {x} : StrLess(x, y)
         IN  <<m>> \o SortNames(S \ {m})

GroupKeys(d) == SortNames({d[i].Calendar : i \in 1..Len(d)})

\* The rows of one group, in frame order.
GroupRows(d, n) == SelectSeq(d, LAMBDA r : r.Calendar = n)

-----------------------------------------------------------------------------
(* Row-to-Event translation (lines 103-165) *)

\* Event(): nothing set.  "timed" tells a timestamp begin/end from a date
\* begin/end; "row" is the index of the row the object was built for.
NewEvent(idx) ==
    [name |-> PyNone, begin |-> NaT, end |-> NaT, timed |-> FALSE,
     location |-> PyNone, uid |-> PyNone, row |-> idx]

\* timedelta(hours=1) if is_timed else timedelta(days=1), in hours.
Adjustment(is_timed) == IF is_timed THEN OneHour ELSE HoursPerDay

\* AdjustEnd with the comparison of line 132 written as a strict one.
AdjustEndStrictOnly(begin, end, is_timed) ==
    IF end < begin THEN begin + Adjustment(is_timed) ELSE end

\* Lines 132-135.
AdjustEnd(begin, end, is_timed) ==
    IF end <= begin THEN begin + Adjustment(is_timed) ELSE end

\* The assignment event.end = value inside the try block.  The calendar
\* library's setter may refuse a value earlier than begin with a ValueError,
\* which the handler of line 162 turns into a skipped row; whether it does
\* depends on the installed release ("strict"), so both releases are kept.
SetEnd(begin, value, strict) ==
    IF strict /\ value # NaT /\ value < begin THEN "ValueError" ELSE "set"

\* Lines 137-153: location and uid of a row that reached them.
WithLocationAndUid(ev, r) ==
    LET location == clean_str(r.Location)
        uid      == clean_str(r.UID)
    IN  [ev EXCEPT
           !.location = IF Truthy(location) THEN location ELSE PyNone,
           !.uid      = IF ~Truthy(uid)
                        THEN make_uid(r.Title, ev.begin, ev.end, location)
                        ELSE uid]

\* The body of the loop for row r under a strict or lenient end setter.
\* Result: the Event object as the iteration leaves it and what happened:
\*   "event"  cal.events.add(event); count += 1
\*   "skip"   skipped_in_group += 1
\*   "none"   the iteration ended without either
Translate(r, strict) ==
    LET title    == clean_str(r.Title)
        e0       == [NewEvent(r.idx) EXCEPT !.name = title]
        is_timed == r.has_time_start \/ r.has_time_end
    IN
    IF ~Truthy(title) THEN [ev |-> e0, kind |-> "skip"]
    ELSE IF is_timed THEN
        LET start_time_str == IF r.has_time_start THEN r.StartTime ELSE Midnight
            begin == parse_dt_str(r.StartDate, start_time_str)
            e1    == [e0 EXCEPT !.begin = begin, !.timed = TRUE]
        IN
        IF begin = NaT THEN [ev |-> e1, kind |-> "skip"]
        ELSE IF r.EndDate # NaT THEN
            LET end_time_str == IF r.has_time_end THEN r.EndTime ELSE Midnight
                end == parse_dt_str(r.EndDate, end_time_str)
            IN  IF SetEnd(begin, end, strict) = "ValueError"
                THEN [ev |-> e1, kind |-> "skip"]
                ELSE [ev |-> [e1 EXCEPT !.end = end], kind |-> "none"]
        ELSE [ev |-> [e1 EXCEPT !.end = begin + OneHour], kind |-> "none"]
    ELSE
        LET begin == r.StartDate * HoursPerDay
            end   == IF r.EndDate # NaT
                     THEN r.EndDate * HoursPerDay + HoursPerDay
                     ELSE begin + HoursPerDay
            e1    == [e0 EXCEPT !.begin = begin]
        IN
        IF SetEnd(begin, end, strict) = "ValueError"
        THEN [ev |-> e1, kind |-> "skip"]
        ELSE LET e2 == [e1 EXCEPT !.end = AdjustEnd(begin, end, is_timed)]
             IN  [ev |-> WithLocationAndUid(e2, r), kind |-> "event"]

-----------------------------------------------------------------------------
(* The script *)

\* Every ordering of a finite set as a sequence.
Orderings(S) ==
    {q \in [1..Cardinality(S) -> S] : \A e \in S : \E i \in DOMAIN q : q[i] = e}

\* HasEvents with the test of line 167 letting an empty group through.
HasEventsOrNone(n) == n >= 0

\* The test that guards the group's output (line 167).
HasEvents(n) == n > 0

\* Lines 172-176.
ManifestEntry(n, sl) ==
    [name |-> n, slug |-> sl, ics |-> <<"/calendars/">> \o sl \o <<".ics">>]

\* Lines 66-87: prepare the columns, filter, count, group.
Prepare ==
    /\ pc = "load"
    /\ LET d == Prepared(table)
           f == Filtered(d)
       IN  /\ df' = f
           /\ initial_count' = Len(d)
           /\ valid_count' = Len(f)
           /\ skipped_count' = Len(d) - Len(f)
           /\ groups' = GroupKeys(f)
    /\ pc' = "groups"
    /\ UNCHANGED <<table, name, slug, cal, count, skipped_in_group, pos, event,
                   outcome, files, calendars_list, total_processed, report,
                   manifest_file>>

\* Lines 89-102: the next group; an empty slug skips it.
GroupBegin ==
    /\ pc = "groups"
    /\ groups # <<>>
    /\ name' = Head(groups)
    /\ groups' = Tail(groups)
    /\ slug' = slugify(Head(groups))
    /\ IF slugify(Head(groups)) = <<>>
       THEN /\ pc' = "groups"
            /\ UNCHANGED <<cal, count, skipped_in_group, pos>>
       ELSE /\ pc' = "rows"
            /\ cal' = {}
            /\ count' = 0
            /\ skipped_in_group' = 0
            /\ pos' = 0
    /\ UNCHANGED <<table, df, initial_count, valid_count, skipped_count, event,
                   outcome, files, calendars_list, total_processed, report,
                   manifest_file>>

\* Lines 103-165: one iteration of the row loop.
ProcessRow ==
    /\ pc = "rows"
    /\ pos < Len(GroupRows(df, name))
    /\ \E strict \in BOOLEAN :
         LET r   == GroupRows(df, name)[pos + 1]
             res == Translate(r, strict)
         IN  /\ event' = res.ev
             /\ outcome' = (r.idx :> res.kind) @@ outcome
             /\ cal' = IF res.kind = "event" THEN cal \cup {res.ev} ELSE cal
             /\ count' = IF res.kind = "event" THEN count + 1 ELSE count
             /\ skipped_in_group' =
                    IF res.kind = "skip" THEN skipped_in_group + 1
                    ELSE skipped_in_group
    /\ pos' = pos + 1
    /\ UNCHANGED <<table, pc, df, initial_count, valid_count, skipped_count,
                   groups, name, slug, files, calendars_list, total_processed,
                   report, manifest_file>>

\* Lines 167-182: write the group's calendar and list it.  The events are
\* kept in a set (cal.events.add), whose iteration order the serializer
\* follows; opening or writing the file may fail, which the handler of line
\* 179 logs, leaving the manifest and the total as they were.
GroupEnd ==
    /\ pc = "rows"
    /\ pos = Len(GroupRows(df, name))
    /\ IF HasEvents(count)
       THEN \E written \in BOOLEAN :
              IF written
              THEN \E serialized \in Orderings(cal) :
                     /\ files' = (slug :> serialized) @@ files
                     /\ calendars_list' =
                            Append(calendars_list, ManifestEntry(name, slug))
                     /\ total_processed' = total_processed + count
                     /\ report' = (name :> [count |-> count,
                                            skipped |-> skipped_in_group,
                                            written |-> TRUE]) @@ report
              ELSE /\ report' = (name :> [count |-> count,
                                          skipped |-> skipped_in_group,
                                          written |-> FALSE]) @@ report
                   /\ UNCHANGED <<files, calendars_list, total_processed>>
       ELSE /\ report' = (name :> [count |-> count,
                                   skipped |-> skipped_in_group,
                                   written |-> FALSE]) @@ report
            /\ UNCHANGED <<files, calendars_list, total_processed>>
    /\ pc' = "groups"
    /\ UNCHANGED <<table, df, initial_count, valid_count, skipped_count, groups,
                   name, slug, cal, count, skipped_in_group, pos, event, outcome,
                   manifest_file>>

\* Lines 184-197: the manifest file, when there is anything to list.
Finish ==
    /\ pc = "groups"
    /\ groups = <<>>
    /\ IF calendars_list # <<>>
       THEN \E written \in BOOLEAN :
              manifest_file' = IF written THEN calendars_list ELSE manifest_file
       ELSE UNCHANGED manifest_file
    /\ pc' = "done"
    /\ UNCHANGED <<table, df, initial_count, valid_count, skipped_count, groups,
                   name, slug, cal, count, skipped_in_group, pos, event, outcome,
                   files, calendars_list, total_processed, report>>

Next == Prepare \/ GroupBegin \/ ProcessRow \/ GroupEnd \/ Finish

-----------------------------------------------------------------------------
(* Input tables *)

Row(calendar, title, sd, st, ed, et, location, uid) ==
    [Calendar |-> calendar, Title |-> title, StartDate |-> sd, StartTime |-> st,
     EndDate |-> ed, EndTime |-> et, Location |-> location, UID |-> uid]

Tables(rows, n) == UNION {[1..k -> rows] : k \in 0..n}

\* The state after the frame is read (line 60) from one of the tables.
InitFrom(tables) ==
    /\ table \in tables
    /\ pc = "load"
    /\ df = <<>>
    /\ initial_count = 0
    /\ valid_count = 0
    /\ skipped_count = 0
    /\ groups = <<>>
    /\ name = PyNone
    /\ slug = <<>>
    /\ cal = {}
    /\ count = 0
    /\ skipped_in_group = 0
    /\ pos = 0
    /\ event = NewEvent(-1)
    /\ outcome = <<>>
    /\ files = <<>>
    /\ calendars_list = <<>>
    /\ total_processed = 0
    /\ report = <<>>
    /\ manifest_file = <<>>

OpenDay == <<"O","p","e","n"," ","D","a","y">>
OpenDaySlug == <<"o","p","e","n","-","d","a","y">>
Tour == <<"T">>

\* Rows that differ in their dates and times.
MaxDay == 2
MaxHour == 1
MaxTimeRows == 1
TimeRows ==
    {Row(OpenDay, Tour, sd, st, ed, et, NaN, NaN) :
        sd \in 1..MaxDay, st \in {StrNan, StrJunk} \cup 1..MaxHour,
        ed \in {NaT} \cup 0..MaxDay, et \in {StrNan, StrJunk} \cup 0..MaxHour}

\* All-day rows that differ in title, location and uid.
MaxUidRows == 2
UidRows ==
    {Row(OpenDay, title, 1, StrNan, NaT, StrNan, location, uid) :
        title \in {Tour, Tour \o <<" ">>},
        location \in {NaN, <<" ">>, <<"L">>},
        uid \in {NaN, <<"0">>, <<"1">>}}

\* All-day rows that differ in calendar name and in whether they translate.
MaxGroupRows == 2
GroupNames == {OpenDay, OpenDaySlug, <<" ","O","p","e","n"," "," ","D","a","y","!">>,
               <<"A">>, <<"!","!">>}
GroupRowDomain ==
    {Row(calendar, title, 1, StrNan, NaT, StrNan, NaN, NaN) :
        calendar \in GroupNames, title \in {Tour, <<" ">>}}

\* Rows with and without the required cells.
MaxFilterRows == 2
FilterRows ==
    {Row(calendar, title, sd, StrNan, NaT, StrNan, NaN, NaN) :
        calendar \in {NaN, OpenDay}, title \in {NaN, Tour},
        sd \in {NaT, DateJunk, 1}}

Init == InitFrom(Tables(TimeRows, MaxTimeRows))
InitUid == InitFrom(Tables(UidRows, MaxUidRows))
InitGroup == InitFrom(Tables(GroupRowDomain, MaxGroupRows))
InitFilter == InitFrom(Tables(FilterRows, MaxFilterRows))

Spec == Init /\ [][Next]_vars
SpecUid == InitUid /\ [][Next]_vars
SpecGroup == InitGroup /\ [][Next]_vars
SpecFilter == InitFilter /\ [][Next]_vars

-----------------------------------------------------------------------------
(* Properties *)

\* The row of the filtered frame with index label i.
RowAt(i) == CHOOSE r \in Range(df) : r.idx = i

\* The rows the loop of the group being processed has already iterated.
Iterated == IF pc = "rows" THEN {GroupRows(df, name)[k].idx : k \in 1..pos} ELSE {}

TitleOk(r) == Truthy(clean_str(r.Title))

IsTimed(r) == r.has_time_start \/ r.has_time_end

StartOf(r) ==
    parse_dt_str(r.StartDate, IF r.has_time_start THEN r.StartTime ELSE Midnight)

EndOf(r) ==
    parse_dt_str(r.EndDate, IF r.has_time_end THEN r.EndTime ELSE Midnight)

NoExplicitUid(r) == ~Truthy(clean_str(r.UID))

\* C1: every iterated row of a group with a non-empty slug that has a title
\* and a Start Time that parses with its Start Date has produced a timed
\* Event beginning at that date and time, held in the group's event set and
\* counted.
C1_TimedRowYieldsEvent ==
    \A i \in Iterated :
        LET r == RowAt(i) IN
        (TitleOk(r) /\ r.has_time_start /\ StartOf(r) # NaT)
            => /\ outcome[i] = "event"
               /\ count > 0
               /\ \E e \in cal : e.row = i /\ e.timed /\ e.begin = StartOf(r)

\* C2: every Event accumulated into a group's event set, and every Event
\* written to a calendar file, ends strictly after it begins.
C2_EndAfterBegin ==
    /\ \A e \in cal : e.end > e.begin
    /\ \A sl \in DOMAIN files :
          \A k \in DOMAIN files[sl] : files[sl][k].end > files[sl][k].begin

\* A row whose End Date lies before its Start Date is in the event set, its
\* end moved to one day after its begin.
C2_Witness ==
    \E e \in cal :
        /\ RowAt(e.row).EndDate # NaT
        /\ RowAt(e.row).EndDate < RowAt(e.row).StartDate
        /\ e.end = e.begin + HoursPerDay

\* C3: an iterated timed row whose parsed end is not after its parsed begin
\* has produced an Event ending one hour after its begin, and an iterated
\* all-day row whose end is not after its begin has produced an Event ending
\* one day after its begin; neither is dropped.
C3_EndForced ==
    \A i \in Iterated :
        LET r == RowAt(i) IN
        /\ (TitleOk(r) /\ IsTimed(r) /\ StartOf(r) # NaT /\ r.EndDate # NaT
              /\ EndOf(r) # NaT /\ EndOf(r) <= StartOf(r))
             => /\ outcome[i] = "event"
                /\ \E e \in cal : e.row = i /\ e.end = e.begin + OneHour
        /\ (TitleOk(r) /\ ~IsTimed(r) /\ r.EndDate # NaT
              /\ r.EndDate < r.StartDate)
             => /\ outcome[i] = "event"
                /\ \E e \in cal : e.row = i /\ e.end = e.begin + HoursPerDay

\* The names listed in the manifest.
Listed == {calendars_list[k].name : k \in DOMAIN calendars_list}

EntriesOf(n) == {k \in DOMAIN calendars_list : calendars_list[k].name = n}

TableNames == {table[k].Calendar : k \in DOMAIN table} \ {NaN}

\* C4: when the run has finished, a group is listed in the manifest exactly
\* when it accumulated at least one Event, and then once, with its name and
\* slug; a group whose rows were all skipped, or whose slug is empty, is not
\* listed.
C4_ListedIffEvents ==
    pc = "done" =>
        \A n \in TableNames :
            /\ n \in Listed <=> (n \in DOMAIN report /\ report[n].count > 0)
            /\ Cardinality(EntriesOf(n)) <= 1
            /\ \A k \in EntriesOf(n) : calendars_list[k].slug = slugify(n)
            /\ slugify(n) = <<>> => n \notin Listed

\* C4 as amended: when the run has finished, a group is listed in the
\* manifest exactly when it accumulated at least one Event and its calendar
\* file was written without error, and then once, with its name and slug; a
\* group whose rows were all skipped, or whose slug is empty, is not listed.
C4_ListedIffEventsWritten ==
    pc = "done" =>
        \A n \in TableNames :
            /\ n \in Listed <=> (/\ n \in DOMAIN report
                                 /\ report[n].count > 0
                                 /\ report[n].written)
            /\ Cardinality(EntriesOf(n)) <= 1
            /\ \A k \in EntriesOf(n) : calendars_list[k].slug = slugify(n)
            /\ slugify(n) = <<>> => n \notin Listed

\* The run has finished with one group listed and another, all of whose rows
\* were skipped, not listed.
C4_Witness ==
    /\ pc = "done"
    /\ \E n \in Listed : report[n].count > 0
    /\ \E n \in DOMAIN report :
          report[n].count = 0 /\ report[n].skipped > 0 /\ n \notin Listed

\* C5: while a group with a non-empty slug is processed, every row iterated
\* so far was either counted as an Event or counted as skipped.
C5_EveryRowCounted ==
    pc = "rows" =>
        /\ count + skipped_in_group = pos
        /\ \A i \in Iterated : outcome[i] \in {"event", "skip"}

\* C6: two Events of rows without an explicit UID that agree in title (as
\* cleaned), begin, end and location carry the same uid, and the uid
\* generated for an Event without a location is the one make_uid yields for
\* the empty location text.
C6_SameContentSameUid ==
    /\ \A e1, e2 \in cal :
          (/\ NoExplicitUid(RowAt(e1.row)) /\ NoExplicitUid(RowAt(e2.row))
           /\ e1.name = e2.name /\ e1.begin = e2.begin /\ e1.end = e2.end
           /\ e1.location = e2.location)
              => e1.uid = e2.uid
    /\ \A e \in cal :
          (NoExplicitUid(RowAt(e.row)) /\ e.location = PyNone)
              => e.uid = make_uid(RowAt(e.row).Title, e.begin, e.end, <<>>)

\* C7: in every calendar file the Events appear in the order of their rows
\* in the table.
C7_RowOrderKept ==
    \A sl \in DOMAIN files :
        \A j, k \in DOMAIN files[sl] :
            j < k => files[sl][j].row < files[sl][k].row

\* C8: an iterated timed row with an End Date whose end date and time do not
\* parse was counted as skipped, and no Event of the event set, nor the Event
\* object of a row that was not skipped, is without an end.
C8_BadEndSkipped ==
    /\ \A i \in Iterated :
          LET r == RowAt(i) IN
          (TitleOk(r) /\ IsTimed(r) /\ StartOf(r) # NaT /\ r.EndDate # NaT
             /\ EndOf(r) = NaT)
              => outcome[i] = "skip"
    /\ \A e \in cal : e.end # NaT
    /\ (event.row \in DOMAIN outcome /\ outcome[event.row] # "skip")
          => event.end # NaT

\* C9: once the frame is filtered, skipped_count is the number of rows of
\* the raw table less the number of rows retained for grouping.
C9_SkippedCount ==
    pc # "load" => skipped_count = Len(table) - Len(df)

\* C10: when the run has finished, no two manifest entries share a slug or
\* an output reference.
C10_DistinctSlugs ==
    pc = "done" =>
        \A j, k \in DOMAIN calendars_list :
            j # k => /\ calendars_list[j].slug # calendars_list[k].slug
                     /\ calendars_list[j].ics # calendars_list[k].ics

====
